---- MODULE Spec2Model ----
(***************************************************************************)
(* Model of the persistence layer of the Ventry inventory tracker          *)
(* (src/database.py, class DatabaseManager): the items catalog, the        *)
(* purchase/sale ledger and the stock log kept in one SQLite connection.   *)
(*                                                                         *)
(* The connection is opened by sqlite3.connect with the default            *)
(* isolation level, so the sqlite3 module opens a transaction implicitly   *)
(* before an INSERT/UPDATE/DELETE and leaves it open until commit() or     *)
(* rollback(); PRAGMA foreign_keys is never issued, so the FOREIGN KEY     *)
(* clauses of the schema are not enforced.                                 *)
(***************************************************************************)
EXTENDS Integers, Sequences, FiniteSets, TLC

\* ------------------------------------------------------------------------
\* Bounds of the model
\* ------------------------------------------------------------------------
\* number of calls made on the DatabaseManager in one behaviour
MaxCalls == 6
\* calls made from the screens in SpecEntry
MaxEntryCalls == 4
\* calls made in SpecNumbering
MaxNumberedCalls == 13
\* add_sale calls made on each connection in SpecConcurrent
MaxSalesPerConnection == 2
\* DatabaseManager instances (processes) open on the same database file
Connections == {1, 2}

\* item ids given to the calls; 1 and 2 are the first ids AUTOINCREMENT issues
ItemIds == {1, 2}
Names == {"Bolt", "Nut"}
\* <<purchase_price, sale_price>> given to add_item and update_item
PricePairs == {<<9, 8>>}
\* <<bill_no, date, quantity, rate>> given to add_purchase and add_sale
PurchaseEntries == {<<"P0001", "2024-01-01", 2, 3>>,
                    <<"P0002", "2024-01-02", 1, 4>>}
SaleEntries == {<<"S0001", "2024-01-02", 1, 4>>,
                <<"S0002", "2024-01-03", 2, 3>>}
Faults == {"none", "insert", "update", "log", "commit"}
\* the statement of add_item at which the storage raises an error other than
\* a constraint violation
ItemFaults == {"none", "insert"}

\* Bill numbers given to get_next_bill_no are sequences of characters
MaxBillLen == 5
BillChars == {"P", "S", "O", "0", "7", "9", "-"}
Prefixes == {<<"P">>, <<"S">>, <<"P", "O">>}

\* texts of the entry form
EntryTypes == {"Purchase Entry", "Sale Entry"}
\* <<bill number, quantity, rate, date>> as typed
EntryForms == {
    << <<"B", "1">>, <<"2">>, <<"3">>, "2024-01-01" >>,
    << <<" ", "B", "2", " ">>, <<"1">>, <<"4">>, "2024-01-02" >>,
    << <<>>, <<"2">>, <<"3">>, "2024-01-01" >>,
    << <<" ">>, <<"2">>, <<"3">>, "2024-01-01" >>,
    << <<"B", "1">>, <<"0">>, <<"3">>, "2024-01-01" >>,
    << <<"B", "1">>, <<"-", "1">>, <<"3">>, "2024-01-01" >>,
    << <<"B", "1">>, <<"x">>, <<"3">>, "2024-01-01" >>,
    << <<"B", "1">>, <<"n", "a", "n">>, <<"3">>, "2024-01-01" >>,
    << <<"B", "1">>, <<"2">>, <<"0">>, "2024-01-01" >>,
    << <<"B", "1">>, <<"2">>, <<"-", "3">>, "2024-01-01" >>,
    << <<"B", "1">>, <<"2">>, <<"n", "a", "n">>, "2024-01-01" >> }
\* currentData() of the item combo; 0 is None
ItemData == {0} \cup ItemIds

\* ------------------------------------------------------------------------
\* State
\* ------------------------------------------------------------------------
VARIABLES
    items,           \* table items: id -> row, for the live ids
    item_seq,        \* AUTOINCREMENT counter of table items (sqlite_sequence)
    purchases,       \* table purchases, in id order
    sales,           \* table sales, in id order
    stock_log,       \* table stock_log, in id order
    in_transaction,  \* the connection has an open transaction
    call,            \* the last call made on the DatabaseManager and its result
    bill,            \* a call of get_next_bill_no: its arguments and its result
    conn             \* SpecConcurrent: each connection's position in add_sale

vars == <<items, item_seq, purchases, sales, stock_log, in_transaction, call,
          bill, conn>>

\* ------------------------------------------------------------------------
\* Return values
\* ------------------------------------------------------------------------
NoMessage == [text |-> "", args |-> <<>>]
Message(text) == [text |-> text, args |-> <<>>]
MsgSuccess == Message("Success")
MsgItemNotFound == Message("Item not found")
MsgInsufficient(current_stock) ==
    [text |-> "Insufficient stock! Available: ", args |-> <<current_stock>>]
MsgNestedBegin == Message("cannot start a transaction within a transaction")
MsgStorage == Message("storage error")

\* n counts the calls made so far
Call(op, ret, msg) ==
    [op |-> op, ret |-> ret, msg |-> msg, n |-> call.n + 1, raised |-> FALSE]

\* The call returned nothing: exception reached the caller (ret is FALSE
\* then, msg names the exception).
Raise(op, exception) ==
    [op |-> op, ret |-> FALSE, msg |-> Message(exception), n |-> call.n + 1,
     raised |-> TRUE]

\* ------------------------------------------------------------------------
\* Tables as seen by one transaction
\* ------------------------------------------------------------------------
Snapshot ==
    [items |-> items, purchases |-> purchases, sales |-> sales,
     stock_log |-> stock_log]

\* Mutant: the UNIQUE constraint on item_name is checked by INSERT only.
NameTaken_InsertOnly(rows, item_name, except_id) ==
    except_id = 0 /\ \E i \in DOMAIN rows : rows[i].item_name = item_name

\* Mutant: no UNIQUE constraint on item_name.
NameTaken_Never(rows, item_name, except_id) == FALSE

\* UNIQUE(item_name): another row than except_id already has the name.
NameTaken(rows, item_name, except_id) ==
    \E i \in DOMAIN rows : i # except_id /\ rows[i].item_name = item_name

\* Mutant: current_stock has no DEFAULT 0 and takes the next value of the
\* INSERT.
InsertItemRow_NoDefaultStock(rows, id, item_name, purchase_price, sale_price) ==
    [i \in DOMAIN rows \cup {id} |->
        IF i = id
        THEN [item_name |-> item_name, current_stock |-> purchase_price,
              purchase_price |-> purchase_price, sale_price |-> sale_price]
        ELSE rows[i]]

InsertItemRow(rows, id, item_name, purchase_price, sale_price) ==
    [i \in DOMAIN rows \cup {id} |->
        IF i = id
        THEN [item_name |-> item_name, current_stock |-> 0,
              purchase_price |-> purchase_price, sale_price |-> sale_price]
        ELSE rows[i]]

\* Mutant: INSERT OR REPLACE instead of UPDATE: the row is written anew, with
\* the default stock, and is created when the id is not there.
UpdateItemRow_Replace(rows, id, item_name, purchase_price, sale_price) ==
    [i \in DOMAIN rows \cup {id} |->
        IF i = id
        THEN [item_name |-> item_name, current_stock |-> 0,
              purchase_price |-> purchase_price, sale_price |-> sale_price]
        ELSE rows[i]]

UpdateItemRow(rows, id, item_name, purchase_price, sale_price) ==
    [i \in DOMAIN rows |->
        IF i = id
        THEN [rows[i] EXCEPT !.item_name = item_name,
                             !.purchase_price = purchase_price,
                             !.sale_price = sale_price]
        ELSE rows[i]]

\* Mutant: DELETE FROM items without the WHERE clause.
DeleteItemRow_All(rows, id) == <<>>

DeleteItemRow(rows, id) == [i \in DOMAIN rows \ {id} |-> rows[i]]

CountFor(table, item_id) ==
    Cardinality({k \in DOMAIN table : table[k].item_id = item_id})

\* Mutant: delete_item looks at the sales only.
HasTransactions_SalesOnly(item_id) == CountFor(sales, item_id) > 0

HasTransactions(item_id) ==
    CountFor(purchases, item_id) > 0 \/ CountFor(sales, item_id) > 0

GetItemById(item_id) ==
    IF item_id \in DOMAIN items THEN <<items[item_id]>> ELSE <<>>

\* Mutant: total is stored without the multiplication by quantity.
InsertLedgerRow_TotalIsRate(table, bill_no, date, item_id, quantity, rate) ==
    Append(table, [bill_no |-> bill_no, date |-> date, item_id |-> item_id,
                   quantity |-> quantity, rate |-> rate, total |-> rate])

InsertLedgerRow(table, bill_no, date, item_id, quantity, rate) ==
    Append(table, [bill_no |-> bill_no, date |-> date, item_id |-> item_id,
                   quantity |-> quantity, rate |-> rate,
                   total |-> quantity * rate])

\* Mutant: the stock log row is written without its bill number.
InsertStockLog_NoBill(table, item_id, change_qty, type, date, bill_no) ==
    Append(table, [item_id |-> item_id, change_qty |-> change_qty,
                   type |-> type, date |-> date, bill_no |-> ""])

InsertStockLog(table, item_id, change_qty, type, date, bill_no) ==
    Append(table, [item_id |-> item_id, change_qty |-> change_qty,
                   type |-> type, date |-> date, bill_no |-> bill_no])

\* Mutant: the UPDATE of the purchase has no WHERE clause.
UpdateStockPurchase_EveryItem(rows, item_id, quantity, rate) ==
    [i \in DOMAIN rows |->
        [rows[i] EXCEPT !.current_stock = @ + quantity,
                        !.purchase_price = rate]]

\* Mutant: the purchase adds the stock and keeps the old purchase_price.
UpdateStockPurchase_KeepPrice(rows, item_id, quantity, rate) ==
    [i \in DOMAIN rows |->
        IF i = item_id
        THEN [rows[i] EXCEPT !.current_stock = @ + quantity]
        ELSE rows[i]]

UpdateStockPurchase(rows, item_id, quantity, rate) ==
    [i \in DOMAIN rows |->
        IF i = item_id
        THEN [rows[i] EXCEPT !.current_stock = @ + quantity,
                             !.purchase_price = rate]
        ELSE rows[i]]

\* Mutant: the sale overwrites purchase_price instead of sale_price.
UpdateStockSale_WrongPrice(rows, item_id, quantity, rate) ==
    [i \in DOMAIN rows |->
        IF i = item_id
        THEN [rows[i] EXCEPT !.current_stock = @ - quantity,
                             !.purchase_price = rate]
        ELSE rows[i]]

UpdateStockSale(rows, item_id, quantity, rate) ==
    [i \in DOMAIN rows |->
        IF i = item_id
        THEN [rows[i] EXCEPT !.current_stock = @ - quantity,
                             !.sale_price = rate]
        ELSE rows[i]]

\* Number of statements of the transaction that ran before the exception.
StatementsBefore(raised) ==
    CASE raised = "begin" -> 0
      [] raised = "insert" -> 0
      [] raised = "update" -> 1
      [] raised = "log" -> 2
      [] raised = "commit" -> 3
      [] OTHER -> 3

PurchaseStatements(D, n, bill_no, date, item_id, quantity, rate) ==
    LET D1 == IF n >= 1
              THEN [D EXCEPT !.purchases =
                       InsertLedgerRow(@, bill_no, date, item_id, quantity, rate)]
              ELSE D
        D2 == IF n >= 2
              THEN [D1 EXCEPT !.items =
                       UpdateStockPurchase(@, item_id, quantity, rate)]
              ELSE D1
        D3 == IF n >= 3
              THEN [D2 EXCEPT !.stock_log =
                       InsertStockLog(@, item_id, quantity, "purchase", date, bill_no)]
              ELSE D2
    IN D3

SaleStatements(D, n, bill_no, date, item_id, quantity, rate) ==
    LET D1 == IF n >= 1
              THEN [D EXCEPT !.sales =
                       InsertLedgerRow(@, bill_no, date, item_id, quantity, rate)]
              ELSE D
        D2 == IF n >= 2
              THEN [D1 EXCEPT !.items =
                       UpdateStockSale(@, item_id, quantity, rate)]
              ELSE D1
        D3 == IF n >= 3
              THEN [D2 EXCEPT !.stock_log =
                       InsertStockLog(@, item_id, 0 - quantity, "sale", date, bill_no)]
              ELSE D2
    IN D3

\* Mutant: the sale is refused only when nothing at all is in stock.
InsufficientStock_OnlyEmpty(current_stock, quantity) == current_stock <= 0

\* if current_stock < quantity
InsufficientStock(current_stock, quantity) == current_stock < quantity

\* Mutant: earlier transactions were never committed, so the rollback
\* discards their rows too.
Rollback_DiscardsEarlier(before, partial) ==
    [before EXCEPT !.purchases = <<>>, !.sales = <<>>, !.stock_log = <<>>]

\* Mutant: the except branch returns without connection.rollback().
Rollback_Missing(before, partial) == partial

\* connection.rollback(): the tables are as they were at BEGIN.
Rollback(before, partial) == before

\* A connection outside add_sale: no transaction, no lock on the file.
IdleConnection ==
    [pc |-> "idle", lock |-> "none", entry |-> <<>>, item_id |-> 0,
     result |-> <<>>, calls |-> 0, ret |-> TRUE, msg |-> NoMessage]

\* ------------------------------------------------------------------------
\* Initial state: a fresh database after connect() and create_tables()
\* ------------------------------------------------------------------------
Init ==
    /\ items = <<>>
    /\ item_seq = 0
    /\ purchases = <<>>
    /\ sales = <<>>
    /\ stock_log = <<>>
    /\ in_transaction = FALSE
    /\ call = [op |-> "init", ret |-> TRUE, msg |-> NoMessage, n |-> 0,
               raised |-> FALSE]
    /\ bill = [prefix |-> <<>>, last_bill |-> <<>>, next_bill |-> <<>>,
               pc |-> "idle"]
    /\ conn = [c \in Connections |-> IdleConnection]

\* ------------------------------------------------------------------------
\* Item operations
\* ------------------------------------------------------------------------
\* The INSERT runs after the implicit BEGIN of the sqlite3 module; only
\* sqlite3.IntegrityError is caught, and neither path that skips commit()
\* rolls back.
add_item(item_name, purchase_price, sale_price, fault) ==
    LET conflict == NameTaken(items, item_name, 0)
        id == item_seq + 1
    IN /\ IF fault = "insert"
          THEN /\ UNCHANGED <<items, item_seq>>
               /\ in_transaction' = TRUE
               /\ call' = Raise("add_item", "OperationalError")
          ELSE IF conflict
          THEN /\ UNCHANGED <<items, item_seq>>
               /\ in_transaction' = TRUE
               /\ call' = Call("add_item", FALSE, NoMessage)
          ELSE /\ items' = InsertItemRow(items, id, item_name,
                                         purchase_price, sale_price)
               /\ item_seq' = id
               /\ in_transaction' = FALSE
               /\ call' = Call("add_item", TRUE, NoMessage)
       /\ UNCHANGED <<purchases, sales, stock_log>>

update_item(item_id, item_name, purchase_price, sale_price) ==
    LET conflict == item_id \in DOMAIN items
                    /\ NameTaken(items, item_name, item_id)
    IN /\ IF conflict
          THEN /\ UNCHANGED items
               /\ in_transaction' = TRUE
          ELSE /\ items' = UpdateItemRow(items, item_id, item_name,
                                         purchase_price, sale_price)
               /\ in_transaction' = FALSE
       /\ UNCHANGED <<item_seq, purchases, sales, stock_log>>
       /\ call' = Call("update_item", ~conflict, NoMessage)

delete_item(item_id) ==
    LET referenced == HasTransactions(item_id)
    IN /\ IF referenced
          THEN UNCHANGED <<items, in_transaction>>
          ELSE /\ items' = DeleteItemRow(items, item_id)
               /\ in_transaction' = FALSE
       /\ UNCHANGED <<item_seq, purchases, sales, stock_log>>
       /\ call' = Call("delete_item", ~referenced, NoMessage)

\* ------------------------------------------------------------------------
\* Purchase and sale operations
\* ------------------------------------------------------------------------
add_purchase(bill_no, date, item_id, quantity, rate, fault) ==
    LET raised == IF in_transaction THEN "begin" ELSE fault
        before == Snapshot
        partial == PurchaseStatements(before, StatementsBefore(raised),
                                      bill_no, date, item_id, quantity, rate)
        after == IF raised = "none" THEN partial ELSE Rollback(before, partial)
    IN /\ in_transaction => fault = "none"
       /\ items' = after.items
       /\ purchases' = after.purchases
       /\ sales' = after.sales
       /\ stock_log' = after.stock_log
       /\ in_transaction' = FALSE
       /\ UNCHANGED item_seq
       /\ call' = Call("add_purchase", raised = "none", NoMessage)

add_sale(bill_no, date, item_id, quantity, rate, fault) ==
    LET found == item_id \in DOMAIN items
        current_stock == items[item_id].current_stock
        raised == IF in_transaction THEN "begin" ELSE fault
        before == Snapshot
        partial == SaleStatements(before, StatementsBefore(raised),
                                  bill_no, date, item_id, quantity, rate)
    IN /\ in_transaction' = FALSE
       /\ UNCHANGED item_seq
       /\ IF in_transaction
          THEN /\ fault = "none"
               /\ UNCHANGED <<items, purchases, sales, stock_log>>
               /\ call' = Call("add_sale", FALSE, MsgNestedBegin)
          ELSE IF ~found
          THEN /\ fault = "none"
               /\ UNCHANGED <<items, purchases, sales, stock_log>>
               /\ call' = Call("add_sale", FALSE, MsgItemNotFound)
          ELSE IF InsufficientStock(current_stock, quantity)
          THEN /\ fault = "none"
               /\ UNCHANGED <<items, purchases, sales, stock_log>>
               /\ call' = Call("add_sale", FALSE,
                               MsgInsufficient(current_stock))
          ELSE LET after == IF raised = "none" THEN partial
                            ELSE Rollback(before, partial)
               IN /\ items' = after.items
                  /\ purchases' = after.purchases
                  /\ sales' = after.sales
                  /\ stock_log' = after.stock_log
                  /\ call' = Call("add_sale", raised = "none",
                                  IF raised = "none" THEN MsgSuccess
                                  ELSE MsgStorage)

\* ------------------------------------------------------------------------
\* Specification
\* ------------------------------------------------------------------------
AddItem ==
    /\ call.n < MaxCalls
    /\ \E n \in Names, p \in PricePairs, f \in ItemFaults :
        add_item(n, p[1], p[2], f)
    /\ UNCHANGED <<bill, conn>>

UpdateItem ==
    /\ call.n < MaxCalls
    /\ \E i \in ItemIds, n \in Names, p \in PricePairs :
        update_item(i, n, p[1], p[2])
    /\ UNCHANGED <<bill, conn>>

DeleteItem ==
    /\ call.n < MaxCalls
    /\ \E i \in ItemIds : delete_item(i)
    /\ UNCHANGED <<bill, conn>>

AddPurchase ==
    /\ call.n < MaxCalls
    /\ \E e \in PurchaseEntries, i \in ItemIds, f \in Faults :
        add_purchase(e[1], e[2], i, e[3], e[4], f)
    /\ UNCHANGED <<bill, conn>>

AddSale ==
    /\ call.n < MaxCalls
    /\ \E e \in SaleEntries, i \in ItemIds, f \in Faults :
        add_sale(e[1], e[2], i, e[3], e[4], f)
    /\ UNCHANGED <<bill, conn>>

Next == AddItem \/ UpdateItem \/ DeleteItem \/ AddPurchase \/ AddSale

Spec == Init /\ [][Next]_vars

\* ------------------------------------------------------------------------
\* Queries
\* ------------------------------------------------------------------------
RowsOf(table, item_id) == {k \in DOMAIN table : table[k].item_id = item_id}

\* LEFT JOIN: an item without rows in the joined table keeps one row of
\* NULLs, written 0 here.
LeftJoin(ids) == IF ids = {} THEN {0} ELSE ids

\* FROM items i LEFT JOIN purchases p ... LEFT JOIN sales s ..., the rows of
\* the group of item i as pairs <<purchase id, sale id>>
JoinedRows(item_id) ==
    LeftJoin(RowsOf(purchases, item_id)) \X LeftJoin(RowsOf(sales, item_id))

\* COALESCE(SUM(quantity), 0) over the joined rows; side 1 sums p.quantity,
\* side 2 sums s.quantity
RECURSIVE SumJoined(_, _, _)
SumJoined(rows, table, side) ==
    IF rows = {} THEN 0
    ELSE LET r == CHOOSE x \in rows : TRUE
         IN (IF r[side] = 0 THEN 0 ELSE table[r[side]].quantity)
            + SumJoined(rows \ {r}, table, side)

ListedItem(item_id) ==
    [id |-> item_id,
     item_name |-> items[item_id].item_name,
     purchased_qty |-> SumJoined(JoinedRows(item_id), purchases, 1),
     sold_qty |-> SumJoined(JoinedRows(item_id), sales, 2),
     current_stock |-> items[item_id].current_stock,
     purchase_price |-> items[item_id].purchase_price,
     sale_price |-> items[item_id].sale_price]

\* The rows of get_all_items by item id (their ORDER BY item_name is not
\* modelled).
get_all_items == [i \in DOMAIN items |-> ListedItem(i)]

\* item_name LIKE '%term%': LIKE ignores the case of ASCII letters
NameChars(item_name) ==
    CASE item_name = "Bolt" -> <<"B", "o", "l", "t">>
      [] item_name = "Nut" -> <<"N", "u", "t">>
      [] OTHER -> <<>>

LowerChar(c) ==
    CASE c = "B" -> "b"
      [] c = "N" -> "n"
      [] c = "T" -> "t"
      [] OTHER -> c

Lower(str) == [k \in DOMAIN str |-> LowerChar(str[k])]

Like(item_name, term) ==
    \E k \in 1..(Len(NameChars(item_name)) - Len(term) + 1) :
        SubSeq(Lower(NameChars(item_name)), k, k + Len(term) - 1) = Lower(term)

SearchTerms == {<<>>, <<"b", "o", "l">>, <<"T">>, <<"x">>}

search_items(search_term) ==
    [i \in {j \in DOMAIN items : Like(items[j].item_name, search_term)} |->
        ListedItem(i)]

\* Dates are 'YYYY-MM-DD' texts, which SQLite and Python compare as text;
\* DateOrder lists the dates of the model in that order.
DateOrder == <<"2024-01-01", "2024-01-02", "2024-01-03">>

DateRank(date) == CHOOSE k \in DOMAIN DateOrder : DateOrder[k] = date

\* ORDER BY date DESC, id DESC
RECURSIVE OrderByDateIdDesc(_, _)
OrderByDateIdDesc(table, ids) ==
    IF ids = {} THEN <<>>
    ELSE LET top == CHOOSE k \in ids : \A j \in ids :
                        \/ DateRank(table[j].date) < DateRank(table[k].date)
                        \/ /\ table[j].date = table[k].date
                           /\ j <= k
         IN <<top>> \o OrderByDateIdDesc(table, ids \ {top})

\* SELECT ... FROM <table> t JOIN items i ON t.item_id = i.id WHERE
\* t.bill_no LIKE '%%' ORDER BY t.date DESC, t.id DESC, each row tagged with
\* its kind; rowid is not displayed, it identifies the row here.
BillRows(kind, table) ==
    LET ids == OrderByDateIdDesc(table,
                   {k \in DOMAIN table : table[k].item_id \in DOMAIN items})
    IN [n \in DOMAIN ids |->
          [kind |-> kind, rowid |-> ids[n],
           bill_no |-> table[ids[n]].bill_no, date |-> table[ids[n]].date,
           item_name |-> items[table[ids[n]].item_id].item_name,
           quantity |-> table[ids[n]].quantity, rate |-> table[ids[n]].rate,
           total |-> table[ids[n]].total]]

\* list.sort(key=date, reverse=True) is stable: bills with equal dates keep
\* the order they had in the list.
InsertByDate(sorted, x) ==
    LET n == Cardinality({k \in DOMAIN sorted :
                            DateRank(sorted[k].date) >= DateRank(x.date)})
    IN SubSeq(sorted, 1, n) \o <<x>> \o SubSeq(sorted, n + 1, Len(sorted))

RECURSIVE SortByDateDesc(_)
SortByDateDesc(bills) ==
    IF bills = <<>> THEN <<>>
    ELSE InsertByDate(SortByDateDesc(SubSeq(bills, 1, Len(bills) - 1)),
                      bills[Len(bills)])

\* The list load_bills hands to populate_table, with an empty search box
load_bills(bill_type) ==
    LET purchase_rows == IF bill_type \in {"All Bills", "Purchases Only"}
                         THEN BillRows("P", purchases) ELSE <<>>
        sale_rows == IF bill_type \in {"All Bills", "Sales Only"}
                     THEN BillRows("S", sales) ELSE <<>>
    IN SortByDateDesc(purchase_rows \o sale_rows)

\* ------------------------------------------------------------------------
\* Bill numbers: get_next_bill_no as a function of its two arguments
\* ------------------------------------------------------------------------
DigitChars == <<"0", "1", "2", "3", "4", "5", "6", "7", "8", "9">>

IsDigit(c) == \E d \in DOMAIN DigitChars : DigitChars[d] = c

DigitValue(c) == (CHOOSE d \in DOMAIN DigitChars : DigitChars[d] = c) - 1

RECURSIVE DigitsValue(_)
DigitsValue(s) ==
    IF s = <<>> THEN 0
    ELSE DigitsValue(SubSeq(s, 1, Len(s) - 1)) * 10 + DigitValue(s[Len(s)])

Unsigned(s) == IF s # <<>> /\ s[1] = "-" THEN Tail(s) ELSE s

\* int(s) does not raise ValueError; over BillChars an integer literal is an
\* optional sign followed by one or more digits.
CanParseInt(s) ==
    /\ Unsigned(s) # <<>>
    /\ \A k \in DOMAIN Unsigned(s) : IsDigit(Unsigned(s)[k])

ParseInt(s) ==
    IF s[1] = "-" THEN 0 - DigitsValue(Tail(s)) ELSE DigitsValue(s)

RECURSIVE NatDigits(_)
NatDigits(n) ==
    IF n < 10 THEN <<DigitChars[n + 1]>>
    ELSE NatDigits(n \div 10) \o <<DigitChars[(n % 10) + 1]>>

RECURSIVE ZeroPad(_, _)
ZeroPad(s, width) ==
    IF Len(s) >= width THEN s ELSE ZeroPad(<<"0">> \o s, width)

\* f"{number:04d}": at least four characters, the sign included
Format04d(number) ==
    IF number < 0
    THEN <<"-">> \o ZeroPad(NatDigits(0 - number), 3)
    ELSE ZeroPad(NatDigits(number), 4)

\* last_bill[1:]
NumberPart(prefix, last_bill) == Tail(last_bill)

get_next_bill_no(prefix, last_bill) ==
    IF last_bill # <<>> /\ Len(last_bill) > 1
    THEN IF CanParseInt(NumberPart(prefix, last_bill))
         THEN prefix \o Format04d(ParseInt(NumberPart(prefix, last_bill)) + 1)
         ELSE prefix \o <<"0", "0", "0", "1">>
    ELSE prefix \o <<"0", "0", "0", "1">>

RECURSIVE SeqsUpTo(_, _)
SeqsUpTo(S, n) ==
    IF n = 0 THEN {<<>>}
    ELSE LET shorter == SeqsUpTo(S, n - 1)
         IN shorter \cup {Append(t, c) : t \in shorter, c \in S}

InitBill ==
    /\ items = <<>>
    /\ item_seq = 0
    /\ purchases = <<>>
    /\ sales = <<>>
    /\ stock_log = <<>>
    /\ in_transaction = FALSE
    /\ call = [op |-> "init", ret |-> TRUE, msg |-> NoMessage, n |-> 0,
               raised |-> FALSE]
    /\ \E prefix \in Prefixes, last_bill \in SeqsUpTo(BillChars, MaxBillLen) :
          bill = [prefix |-> prefix, last_bill |-> last_bill,
                  next_bill |-> <<>>, pc |-> "call"]
    /\ conn = [c \in Connections |-> IdleConnection]

GetNextBillNo ==
    /\ bill.pc = "call"
    /\ bill' = [bill EXCEPT
                   !.next_bill = get_next_bill_no(bill.prefix, bill.last_bill),
                   !.pc = "done"]
    /\ UNCHANGED <<items, item_seq, purchases, sales, stock_log,
                   in_transaction, call, conn>>

NextBill == GetNextBillNo

SpecBill == InitBill /\ [][NextBill]_vars

\* ------------------------------------------------------------------------
\* Entry screen: save_entry as a function of the texts of the form
\* ------------------------------------------------------------------------
\* str.strip()
RECURSIVE StripText(_)
StripText(text) ==
    IF text = <<>> THEN <<>>
    ELSE IF Head(text) = " " THEN StripText(Tail(text))
    ELSE IF text[Len(text)] = " "
    THEN StripText(SubSeq(text, 1, Len(text) - 1))
    ELSE text

\* A float: NaN, or the number v (v is 0 for NaN and not read then).
NaN == [nan |-> TRUE, v |-> 0]
Number(v) == [nan |-> FALSE, v |-> v]

\* float(text) does not raise ValueError; the texts of the model are integer
\* literals, "nan" and texts that are not numbers.
CanParseFloat(text) == text = <<"n", "a", "n">> \/ CanParseInt(text)

ParseFloat(text) ==
    IF text = <<"n", "a", "n">> THEN NaN ELSE Number(ParseInt(text))

\* Mutant: only negative values are refused.
NotPositive_NegativeOnly(x) == ~x.nan /\ x.v < 0

\* x <= 0, False for NaN
NotPositive(x) == ~x.nan /\ x.v <= 0

\* sqlite3 binds NaN as NULL and the quantity, rate and total columns are
\* NOT NULL: the INSERT of the ledger row raises IntegrityError when it is
\* reached.
InsertFault(quantity, rate, reached) ==
    IF (quantity.nan \/ rate.nan) /\ reached THEN "insert" ELSE "none"

save_entry(entry_type, bill_text, item_data, quantity_text, rate_text, date) ==
    LET bill_no == StripText(bill_text)
        warning(text) ==
            /\ UNCHANGED <<items, item_seq, purchases, sales, stock_log,
                           in_transaction>>
            /\ call' = Call("save_entry", FALSE, Message(text))
    IN IF bill_no = <<>>
       THEN warning("Bill number is required!")
       ELSE IF item_data = 0
       THEN warning("No items available!")
       ELSE IF ~CanParseFloat(quantity_text) \/ ~CanParseFloat(rate_text)
       THEN warning("Please enter valid numeric values!")
       ELSE LET quantity == ParseFloat(quantity_text)
                rate == ParseFloat(rate_text)
            IN IF NotPositive(quantity)
               THEN warning("Quantity must be greater than 0!")
               ELSE IF NotPositive(rate)
               THEN warning("Rate must be greater than 0!")
               ELSE IF entry_type = "Purchase Entry"
               THEN add_purchase(bill_no, date, item_data, quantity.v, rate.v,
                        InsertFault(quantity, rate, ~in_transaction))
               ELSE add_sale(bill_no, date, item_data, quantity.v, rate.v,
                        InsertFault(quantity, rate,
                            /\ ~in_transaction
                            /\ item_data \in DOMAIN items
                            /\ ~InsufficientStock(
                                   items[item_data].current_stock,
                                   quantity.v)))

SaveEntry ==
    /\ call.n < MaxEntryCalls
    /\ \E t \in EntryTypes, i \in ItemData, f \in EntryForms :
        save_entry(t, f[1], i, f[2], f[3], f[4])
    /\ UNCHANGED <<bill, conn>>

\* StockScreen.add_item: the dialog's data handed to add_item
StockAddItem == call.n < MaxEntryCalls /\ AddItem

NextEntry == StockAddItem \/ SaveEntry

SpecEntry == Init /\ [][NextEntry]_vars

\* ------------------------------------------------------------------------
\* Bill numbers proposed by the entry form
\* ------------------------------------------------------------------------
\* Mutant: ORDER BY id ASC, the first purchase instead of the last.
get_last_purchase_bill_no_First ==
    IF purchases = <<>> THEN <<"P", "0", "0", "0", "0">>
    ELSE purchases[1].bill_no

\* SELECT bill_no FROM purchases ORDER BY id DESC LIMIT 1
get_last_purchase_bill_no ==
    IF purchases = <<>> THEN <<"P", "0", "0", "0", "0">>
    ELSE purchases[Len(purchases)].bill_no

get_last_sale_bill_no ==
    IF sales = <<>> THEN <<"S", "0", "0", "0", "0">>
    ELSE sales[Len(sales)].bill_no

\* next_bill of update_entry_form
update_entry_form(entry_type) ==
    IF entry_type = "Purchase Entry"
    THEN get_next_bill_no(<<"P">>, get_last_purchase_bill_no)
    ELSE get_next_bill_no(<<"S">>, get_last_sale_bill_no)

\* <<date, item_id, quantity, rate>> of the numbered entries
NumberedEntries == {<<"2024-01-01", 1, 1, 3>>}
\* a call runs to its end or fails at its last statement
NumberedFaults == {"none", "commit"}

\* add_purchase with the bill number the form proposes
NumberedPurchase ==
    /\ call.n < MaxNumberedCalls
    /\ \E e \in NumberedEntries, f \in NumberedFaults :
          add_purchase(update_entry_form("Purchase Entry"), e[1], e[2], e[3],
                       e[4], f)
    /\ UNCHANGED <<bill, conn>>

\* add_sale with the bill number the form proposes
NumberedSale ==
    /\ call.n < MaxNumberedCalls
    /\ \E e \in NumberedEntries, f \in NumberedFaults :
          add_sale(update_entry_form("Sale Entry"), e[1], e[2], e[3], e[4], f)
    /\ UNCHANGED <<bill, conn>>

NextNumbering == AddItem \/ NumberedPurchase \/ NumberedSale

SpecNumbering == Init /\ [][NextNumbering]_vars

\* ------------------------------------------------------------------------
\* add_sale statement by statement, on connections that share the database
\* file. items, sales and stock_log are the committed tables of the file; the
\* file is in SQLite's default rollback-journal mode.
\* ------------------------------------------------------------------------
OtherHolds(c, locks) == \E o \in Connections \ {c} : conn[o].lock \in locks

\* Mutant: the SELECT runs outside the transaction, its lock ends with it.
LockAfterSelect_Released(lock) == "none"

\* A SELECT inside a transaction takes the SHARED lock, kept until the
\* transaction ends.
LockAfterSelect(lock) == IF lock = "none" THEN "shared" ELSE lock

\* The first write needs the RESERVED lock, which one connection holds at a
\* time.
CanReserve(c) == ~OtherHolds(c, {"reserved"})

\* COMMIT needs the EXCLUSIVE lock: no other connection holds any lock.
CanCommit(c) == ~OtherHolds(c, {"shared", "reserved"})

\* return False, ...: the transaction is over and its writes are dropped
SaleReturns(c, ret, msg) ==
    conn' = [conn EXCEPT ![c] = [@ EXCEPT !.pc = "idle", !.lock = "none",
                                         !.ret = ret, !.msg = msg]]

\* self.connection.execute("BEGIN TRANSACTION"): deferred, takes no lock
add_sale_begin(c, bill_no, date, item_id, quantity, rate) ==
    /\ conn[c].pc = "idle"
    /\ conn[c].calls < MaxSalesPerConnection
    /\ conn' = [conn EXCEPT ![c] =
                   [@ EXCEPT !.pc = "select",
                             !.entry = <<bill_no, date, quantity, rate>>,
                             !.item_id = item_id, !.result = <<>>,
                             !.calls = @ + 1]]
    /\ UNCHANGED <<items, sales, stock_log>>

\* SELECT current_stock FROM items WHERE id = ?; result = fetchone(). While
\* another connection is committing (it holds the PENDING lock until the
\* readers are gone) the SELECT may raise "database is locked".
add_sale_select(c) ==
    /\ conn[c].pc = "select"
    /\ \/ conn' = [conn EXCEPT ![c] =
                      [@ EXCEPT !.pc = "check",
                                !.lock = LockAfterSelect(@),
                                !.result = GetItemById(conn[c].item_id)]]
       \/ /\ \E o \in Connections \ {c} : conn[o].pc = "commit"
          /\ SaleReturns(c, FALSE, MsgStorage)
    /\ UNCHANGED <<items, sales, stock_log>>

\* if not result ... if current_stock < quantity ...
add_sale_check(c) ==
    /\ conn[c].pc = "check"
    /\ IF conn[c].result = <<>>
       THEN SaleReturns(c, FALSE, MsgItemNotFound)
       ELSE IF InsufficientStock(conn[c].result[1].current_stock,
                                 conn[c].entry[3])
       THEN SaleReturns(c, FALSE,
                        MsgInsufficient(conn[c].result[1].current_stock))
       ELSE conn' = [conn EXCEPT ![c].pc = "insert"]
    /\ UNCHANGED <<items, sales, stock_log>>

\* INSERT INTO sales: the first write of the transaction. With the RESERVED
\* lock taken by another connection it raises "database is locked" (or waits
\* for that connection, which is this step taken later).
add_sale_insert(c) ==
    /\ conn[c].pc = "insert"
    /\ IF CanReserve(c)
       THEN conn' = [conn EXCEPT ![c].pc = "update", ![c].lock = "reserved"]
       ELSE SaleReturns(c, FALSE, MsgStorage)
    /\ UNCHANGED <<items, sales, stock_log>>

\* UPDATE items SET current_stock = current_stock - ?, sale_price = ?
add_sale_update(c) ==
    /\ conn[c].pc = "update"
    /\ conn' = [conn EXCEPT ![c].pc = "log"]
    /\ UNCHANGED <<items, sales, stock_log>>

\* INSERT INTO stock_log
add_sale_log(c) ==
    /\ conn[c].pc = "log"
    /\ conn' = [conn EXCEPT ![c].pc = "commit"]
    /\ UNCHANGED <<items, sales, stock_log>>

\* self.connection.commit(): the three writes reach the file together. They
\* were made on the tables as they are now, no other connection having
\* written since the RESERVED lock was taken. While another connection holds
\* a lock the commit raises "database is locked" (or waits).
add_sale_commit(c) ==
    /\ conn[c].pc = "commit"
    /\ IF CanCommit(c)
       THEN LET after == SaleStatements(Snapshot, 3, conn[c].entry[1],
                             conn[c].entry[2], conn[c].item_id,
                             conn[c].entry[3], conn[c].entry[4])
            IN /\ items' = after.items
               /\ sales' = after.sales
               /\ stock_log' = after.stock_log
               /\ SaleReturns(c, TRUE, MsgSuccess)
       ELSE /\ UNCHANGED <<items, sales, stock_log>>
            /\ SaleReturns(c, FALSE, MsgStorage)

\* The database after add_item and one add_purchase on the new item.
InitConcurrent ==
    /\ \E n \in Names, p \in PricePairs, e \in PurchaseEntries :
          /\ items = UpdateStockPurchase(
                         InsertItemRow(<<>>, 1, n, p[1], p[2]), 1, e[3], e[4])
          /\ purchases = InsertLedgerRow(<<>>, e[1], e[2], 1, e[3], e[4])
          /\ stock_log = InsertStockLog(<<>>, 1, e[3], "purchase", e[2], e[1])
    /\ item_seq = 1
    /\ sales = <<>>
    /\ in_transaction = FALSE
    /\ call = [op |-> "add_purchase", ret |-> TRUE, msg |-> NoMessage,
               n |-> 2, raised |-> FALSE]
    /\ bill = [prefix |-> <<>>, last_bill |-> <<>>, next_bill |-> <<>>,
               pc |-> "idle"]
    /\ conn = [c \in Connections |-> IdleConnection]

ConcurrentUnchanged ==
    UNCHANGED <<item_seq, purchases, in_transaction, call, bill>>

SaleBegin ==
    /\ \E c \in Connections, e \in SaleEntries, i \in ItemIds :
          add_sale_begin(c, e[1], e[2], i, e[3], e[4])
    /\ ConcurrentUnchanged

SaleSelect == (\E c \in Connections : add_sale_select(c)) /\ ConcurrentUnchanged

SaleCheck == (\E c \in Connections : add_sale_check(c)) /\ ConcurrentUnchanged

SaleInsert == (\E c \in Connections : add_sale_insert(c)) /\ ConcurrentUnchanged

SaleUpdate == (\E c \in Connections : add_sale_update(c)) /\ ConcurrentUnchanged

SaleLog == (\E c \in Connections : add_sale_log(c)) /\ ConcurrentUnchanged

SaleCommit == (\E c \in Connections : add_sale_commit(c)) /\ ConcurrentUnchanged

NextConcurrent ==
    \/ SaleBegin
    \/ SaleSelect
    \/ SaleCheck
    \/ SaleInsert
    \/ SaleUpdate
    \/ SaleLog
    \/ SaleCommit

SpecConcurrent == InitConcurrent /\ [][NextConcurrent]_vars

\* ------------------------------------------------------------------------
\* Properties
\* ------------------------------------------------------------------------
RECURSIVE SumQuantity(_, _)
SumQuantity(table, item_id) ==
    IF table = <<>> THEN 0
    ELSE (IF Head(table).item_id = item_id THEN Head(table).quantity ELSE 0)
         + SumQuantity(Tail(table), item_id)

References(table, item_id) ==
    \E k \in DOMAIN table : table[k].item_id = item_id

\* C21: add_item returns False, and does not raise, whenever its write fails,
\* be it for a duplicate name or for any other storage error, and then the
\* items table is unchanged.
C21_AddItemFailureReturned ==
    [][\A n \in Names, p \in PricePairs, f \in ItemFaults :
          ( /\ add_item(n, p[1], p[2], f)
            /\ \/ f # "none"
               \/ \E j \in DOMAIN items : items[j].item_name = n )
          => /\ ~call'.raised
             /\ call'.ret = FALSE
             /\ items' = items]_vars

\* C22: an add_item that returns True creates exactly one item, with
\* current_stock 0, the given name and prices and an id that no existing item
\* has, and leaves the existing items and all purchase, sale and stock log
\* rows unchanged.
C22_AddItemCreatesOne ==
    [][\A n \in Names, p \in PricePairs, f \in ItemFaults :
          ( add_item(n, p[1], p[2], f) /\ call'.ret = TRUE )
          => /\ \E id \in DOMAIN items' \ DOMAIN items :
                   /\ DOMAIN items' = DOMAIN items \cup {id}
                   /\ items'[id] = [item_name |-> n, current_stock |-> 0,
                                    purchase_price |-> p[1],
                                    sale_price |-> p[2]]
             /\ \A i \in DOMAIN items : items'[i] = items[i]
             /\ UNCHANGED <<purchases, sales, stock_log>>]_vars

\* a second item was added next to one that has stock and ledger rows
C22_Witness ==
    /\ call.op = "add_item"
    /\ call.ret = TRUE
    /\ Cardinality(DOMAIN items) = 2
    /\ \E i \in DOMAIN items : items[i].current_stock > 0
    /\ Len(purchases) > 0

\* C23: every purchase and sale row has quantity > 0 and rate > 0, and
\* save_entry with an empty bill number or a quantity or rate that is not
\* positive shows a warning without calling add_purchase or add_sale and
\* leaves every table as it was.
C23_EntriesArePositive ==
    /\ [](\A k \in DOMAIN purchases :
              purchases[k].quantity > 0 /\ purchases[k].rate > 0)
    /\ [](\A k \in DOMAIN sales :
              sales[k].quantity > 0 /\ sales[k].rate > 0)
    /\ [][\A t \in EntryTypes, i \in ItemData, f \in EntryForms :
             ( /\ \/ \A c \in DOMAIN f[1] : f[1][c] = " "
                  \/ /\ CanParseInt(f[2])
                     /\ ParseInt(f[2]) <= 0
                  \/ /\ CanParseInt(f[3])
                     /\ ParseInt(f[3]) <= 0
               /\ save_entry(t, f[1], i, f[2], f[3], f[4]) )
             => /\ call'.op = "save_entry"
                /\ UNCHANGED <<items, purchases, sales, stock_log>>]_vars

\* a purchase and a sale were saved and the last entry was refused for its
\* quantity or rate
C23_Witness ==
    /\ Len(purchases) > 0
    /\ Len(sales) > 0
    /\ call.op = "save_entry"
    /\ call.msg \in {Message("Quantity must be greater than 0!"),
                     Message("Rate must be greater than 0!")}

\* C24: with add_sale calls of two connections interleaved statement by
\* statement, the committed current_stock of every item is never negative
\* and always equals its purchases minus its committed sales.
C24_InterleavedSalesKeepStock ==
    \A i \in DOMAIN items :
        /\ items[i].current_stock >= 0
        /\ items[i].current_stock
              = SumQuantity(purchases, i) - SumQuantity(sales, i)

\* One connection is about to commit a sale while the other, which read the
\* stock before that, is about to write a sale of the same item, and the
\* stock does not cover both.
C24_Witness ==
    /\ conn[1].pc = "commit"
    /\ conn[2].pc = "insert"
    /\ conn[1].item_id = conn[2].item_id
    /\ conn[1].item_id \in DOMAIN items
    /\ conn[1].entry[3] + conn[2].entry[3]
          > items[conn[1].item_id].current_stock

\* C25: without a storage failure, add_sale on an existing item with
\* 0 < quantity <= current_stock returns True and takes the quantity off the
\* stock, so a sale of the whole stock leaves current_stock = 0.
C25_CoveredSaleSucceeds ==
    [][\A e \in SaleEntries, i \in ItemIds :
          ( /\ add_sale(e[1], e[2], i, e[3], e[4], "none")
            /\ i \in DOMAIN items
            /\ 0 < e[3]
            /\ e[3] <= items[i].current_stock )
          => /\ call'.ret = TRUE
             /\ items'[i].current_stock = items[i].current_stock - e[3]]_vars

\* C26: after an add_item or update_item that returned False for a name
\* conflict, the next add_purchase on an existing item, and the next add_sale
\* on an existing item with enough stock, succeed when the storage does not
\* fail: True is returned, the row is added and the stock is changed.
C26_NextCallAfterConflictSucceeds ==
    [][ ( /\ call.op \in {"add_item", "update_item"}
          /\ call.ret = FALSE
          /\ ~call.raised )
        => /\ \A e \in PurchaseEntries, i \in ItemIds :
                ( /\ add_purchase(e[1], e[2], i, e[3], e[4], "none")
                  /\ i \in DOMAIN items )
                => /\ call'.ret = TRUE
                   /\ Len(purchases') = Len(purchases) + 1
                   /\ items'[i].current_stock
                         = items[i].current_stock + e[3]
           /\ \A e \in SaleEntries, i \in ItemIds :
                ( /\ add_sale(e[1], e[2], i, e[3], e[4], "none")
                  /\ i \in DOMAIN items
                  /\ e[3] <= items[i].current_stock )
                => /\ call'.ret = TRUE
                   /\ Len(sales') = Len(sales) + 1
                   /\ items'[i].current_stock
                         = items[i].current_stock - e[3] ]_vars

\* C27: update_item changes nothing but the name and the two prices of the
\* item with the given id: the set of item ids, that item's current_stock,
\* every other item and all purchase, sale and stock log rows stay as they
\* were; with an id that matches no item nothing changes.
C27_UpdateItemFrame ==
    [][\A i \in ItemIds, n \in Names, p \in PricePairs :
          update_item(i, n, p[1], p[2])
          => /\ DOMAIN items' = DOMAIN items
             /\ \A j \in DOMAIN items :
                   /\ items'[j].current_stock = items[j].current_stock
                   /\ j # i => items'[j] = items[j]
             /\ i \notin DOMAIN items => items' = items
             /\ UNCHANGED <<item_seq, purchases, sales, stock_log>>]_vars

\* an item was renamed after a purchase had given it stock and a new
\* purchase price, next to another item
C27_Witness ==
    /\ call.op = "update_item"
    /\ call.ret = TRUE
    /\ Cardinality(DOMAIN items) = 2
    /\ \E i \in DOMAIN items :
          /\ items[i].current_stock > 0
          /\ items[i].purchase_price = 9
    /\ Len(purchases) > 0

\* C28: when every add_purchase is called with the bill number
\* get_next_bill_no("P", get_last_purchase_bill_no()), the k-th purchase row
\* has the bill number "P" followed by k padded with zeros to four digits,
\* and a call that adds no purchase row (a failed purchase, a sale, an
\* add_item) leaves the next purchase bill number as it was.
C28_PurchaseBillsNumbered ==
    /\ [](\A k \in DOMAIN purchases :
              purchases[k].bill_no = <<"P">> \o ZeroPad(NatDigits(k), 4))
    /\ [][Len(purchases') = Len(purchases)
           => update_entry_form("Purchase Entry")'
                 = update_entry_form("Purchase Entry")]_vars

\* ten purchases, so that the number went from P0009 to P0010, with sales
\* committed and a purchase that has just failed
C28_Witness ==
    /\ Len(purchases) = 10
    /\ purchases[10].bill_no = <<"P", "0", "0", "1", "0">>
    /\ Len(sales) > 0
    /\ call.op = "add_purchase"
    /\ call.ret = FALSE

\* The rows a step adds to a table all reference item_id; the rows that were
\* there stay.
AddsOnlyFor(before, after, item_id) ==
    /\ Len(after) >= Len(before)
    /\ SubSeq(after, 1, Len(before)) = before
    /\ \A k \in DOMAIN after \ DOMAIN before : after[k].item_id = item_id

\* C29: add_purchase and add_sale on an item, whether they succeed or fail,
\* leave every other item as it was and add no purchase, sale or stock log
\* row that references another item.
C29_LedgerCallFrame ==
    [][ /\ \A e \in PurchaseEntries, i \in ItemIds, f \in Faults :
              add_purchase(e[1], e[2], i, e[3], e[4], f)
              => /\ DOMAIN items' = DOMAIN items
                 /\ \A j \in DOMAIN items \ {i} : items'[j] = items[j]
                 /\ AddsOnlyFor(purchases, purchases', i)
                 /\ AddsOnlyFor(sales, sales', i)
                 /\ AddsOnlyFor(stock_log, stock_log', i)
        /\ \A e \in SaleEntries, i \in ItemIds, f \in Faults :
              add_sale(e[1], e[2], i, e[3], e[4], f)
              => /\ DOMAIN items' = DOMAIN items
                 /\ \A j \in DOMAIN items \ {i} : items'[j] = items[j]
                 /\ AddsOnlyFor(purchases, purchases', i)
                 /\ AddsOnlyFor(sales, sales', i)
                 /\ AddsOnlyFor(stock_log, stock_log', i) ]_vars

\* a purchase or sale was committed for one of two items while the other,
\* which has no rows, still has no stock and its first prices
C29_Witness ==
    /\ call.op \in {"add_purchase", "add_sale"}
    /\ call.ret = TRUE
    /\ \E i, j \in DOMAIN items :
          /\ i # j
          /\ References(purchases, i)
          /\ ~References(purchases, j)
          /\ items[j].current_stock = 0
          /\ items[j].purchase_price = 9

\* C13: after a successful add_purchase on an existing item its current_stock
\* is the previous value plus quantity and its purchase_price is rate, while
\* its sale_price and item_name are unchanged.
C13_PurchaseUpdatesItem ==
    [][\A e \in PurchaseEntries, i \in ItemIds, f \in Faults :
          ( /\ add_purchase(e[1], e[2], i, e[3], e[4], f)
            /\ call'.ret = TRUE
            /\ i \in DOMAIN items )
          => /\ i \in DOMAIN items'
             /\ items'[i].current_stock = items[i].current_stock + e[3]
             /\ items'[i].purchase_price = e[4]
             /\ items'[i].sale_price = items[i].sale_price
             /\ items'[i].item_name = items[i].item_name]_vars

C13_Witness ==
    /\ call.op = "add_purchase"
    /\ call.ret = TRUE
    /\ Len(purchases) = 2
    /\ \E i \in DOMAIN items :
          /\ items[i].current_stock = 3
          /\ items[i].purchase_price = purchases[2].rate
          /\ purchases[1].rate # purchases[2].rate

\* C14: after a successful add_sale the item's current_stock is the previous
\* value minus quantity and its sale_price is rate, while its purchase_price
\* and item_name are unchanged.
C14_SaleUpdatesItem ==
    [][\A e \in SaleEntries, i \in ItemIds, f \in Faults :
          ( /\ add_sale(e[1], e[2], i, e[3], e[4], f)
            /\ call'.ret = TRUE )
          => /\ i \in DOMAIN items
             /\ i \in DOMAIN items'
             /\ items'[i].current_stock = items[i].current_stock - e[3]
             /\ items'[i].sale_price = e[4]
             /\ items'[i].purchase_price = items[i].purchase_price
             /\ items'[i].item_name = items[i].item_name]_vars

C14_Witness ==
    /\ call.op = "add_sale"
    /\ call.ret = TRUE
    /\ \E i \in DOMAIN items :
          /\ items[i].sale_price = sales[Len(sales)].rate
          /\ items[i].purchase_price # items[i].sale_price

\* C15: every purchase and sale row has total = quantity * rate, with the
\* quantity and rate given to the call that wrote it, in every reachable
\* state, whatever later calls do to the item's prices.
C15_TotalIsQuantityTimesRate ==
    /\ [](\A k \in DOMAIN purchases :
             purchases[k].total = purchases[k].quantity * purchases[k].rate)
    /\ [](\A k \in DOMAIN sales :
             sales[k].total = sales[k].quantity * sales[k].rate)
    /\ [][\A e \in PurchaseEntries, i \in ItemIds, f \in Faults :
             ( add_purchase(e[1], e[2], i, e[3], e[4], f) /\ call'.ret = TRUE )
             => LET row == purchases'[Len(purchases')]
                IN /\ row.quantity = e[3]
                   /\ row.rate = e[4]
                   /\ row.total = e[3] * e[4]]_vars
    /\ [][\A e \in SaleEntries, i \in ItemIds, f \in Faults :
             ( add_sale(e[1], e[2], i, e[3], e[4], f) /\ call'.ret = TRUE )
             => LET row == sales'[Len(sales')]
                IN /\ row.quantity = e[3]
                   /\ row.rate = e[4]
                   /\ row.total = e[3] * e[4]]_vars

C15_Witness ==
    /\ call.op = "update_item"
    /\ call.ret = TRUE
    /\ \E k \in DOMAIN purchases :
          /\ purchases[k].item_id \in DOMAIN items
          /\ purchases[k].quantity = 2
          /\ items[purchases[k].item_id].purchase_price # purchases[k].rate
    /\ Len(sales) >= 1

\* C16: purchase, sale and stock log rows are append-only: a row present in
\* one state is present with the same id and the same field values in the
\* next state, whatever call is made.
C16_LedgerAppendOnly ==
    [][ /\ \A k \in DOMAIN purchases :
              k \in DOMAIN purchases' /\ purchases'[k] = purchases[k]
        /\ \A k \in DOMAIN sales :
              k \in DOMAIN sales' /\ sales'[k] = sales[k]
        /\ \A k \in DOMAIN stock_log :
              k \in DOMAIN stock_log' /\ stock_log'[k] = stock_log[k] ]_vars

C16_Witness ==
    /\ Len(purchases) >= 1
    /\ Len(sales) >= 1
    /\ Len(stock_log) >= 2
    /\ call.op \in {"add_purchase", "add_sale"}
    /\ call.ret = FALSE

\* C17: for every live item get_all_items, and search_items for a term that
\* matches it, report purchased_qty = the sum of quantity over the item's
\* purchase rows and sold_qty = the sum of quantity over its sale rows.
C17_ListedQuantitiesAreSums ==
    /\ \A i \in DOMAIN items :
          /\ get_all_items[i].purchased_qty = SumQuantity(purchases, i)
          /\ get_all_items[i].sold_qty = SumQuantity(sales, i)
    /\ \A t \in SearchTerms : \A i \in DOMAIN search_items(t) :
          /\ search_items(t)[i].purchased_qty = SumQuantity(purchases, i)
          /\ search_items(t)[i].sold_qty = SumQuantity(sales, i)

\* The position of a bill in the order in which the bills were committed:
\* the index of its row in stock_log.
InsertedAt(b) ==
    CHOOSE l \in DOMAIN stock_log :
        /\ stock_log[l].type = (IF b.kind = "P" THEN "purchase" ELSE "sale")
        /\ Cardinality({m \in 1..l : stock_log[m].type = stock_log[l].type})
               = b.rowid

\* C18: the listing of all bills is ordered by date descending and, among
\* bills of the same date, the most recently inserted bill comes first, also
\* when these are a mix of purchases and sales.
C18_BillsNewestFirst ==
    LET bills == load_bills("All Bills")
    IN \A a, b \in DOMAIN bills :
          a < b =>
             \/ DateRank(bills[a].date) > DateRank(bills[b].date)
             \/ /\ bills[a].date = bills[b].date
                /\ InsertedAt(bills[a]) > InsertedAt(bills[b])

\* C20: every purchase, sale and stock log row references an item that is
\* in the items table.
C20_RecordsReferenceItems ==
    /\ \A k \in DOMAIN purchases : purchases[k].item_id \in DOMAIN items
    /\ \A k \in DOMAIN sales : sales[k].item_id \in DOMAIN items
    /\ \A k \in DOMAIN stock_log : stock_log[k].item_id \in DOMAIN items

\* C19: with every add_purchase and add_sale called with quantity > 0 (as
\* all of PurchaseEntries and SaleEntries are), each item's current_stock is
\* >= 0 in every reachable state.
C19_StockNeverNegative ==
    \A i \in DOMAIN items : items[i].current_stock >= 0

C19_Witness ==
    /\ call.op = "add_sale"
    /\ call.ret = TRUE
    /\ \E i \in DOMAIN items :
          items[i].current_stock = 0 /\ References(sales, i)

\* C11: when last_bill is the prefix followed by the decimal digits of a
\* non-negative integer n, get_next_bill_no(prefix, last_bill) is the prefix
\* followed by n + 1 zero-padded to 4 digits.
C11_NextBillNoIncrements ==
    LET d == SubSeq(bill.last_bill, Len(bill.prefix) + 1, Len(bill.last_bill))
    IN ( /\ bill.pc = "done"
         /\ d # <<>>
         /\ \A k \in DOMAIN d : IsDigit(d[k])
         /\ bill.last_bill = bill.prefix \o d )
       => bill.next_bill =
              bill.prefix \o ZeroPad(NatDigits(DigitsValue(d) + 1), 4)

\* C12: get_next_bill_no(prefix, last_bill) is the prefix followed by "0001"
\* whenever last_bill is empty or what follows the prefix in last_bill is
\* not an integer literal.
C12_NextBillNoFallsBack ==
    ( /\ bill.pc = "done"
      /\ \/ bill.last_bill = <<>>
         \/ ~CanParseInt(SubSeq(bill.last_bill, Len(bill.prefix) + 1,
                                Len(bill.last_bill))) )
    => bill.next_bill = bill.prefix \o <<"0", "0", "0", "1">>

\* C1: in every reachable state each item's current_stock equals the sum of
\* the quantities of the purchases referencing the item minus the sum of the
\* quantities of the sales referencing it.
C1_StockEqualsLedger ==
    \A i \in DOMAIN items :
        items[i].current_stock =
            SumQuantity(purchases, i) - SumQuantity(sales, i)

\* C2: add_sale on an existing item with quantity greater than its
\* current_stock returns (False, insufficient stock with the available
\* quantity = current_stock at the call) and leaves sales, stock_log and the
\* item's current_stock and sale_price as they were.
C2_InsufficientStockReported ==
    [][\A e \in SaleEntries, i \in ItemIds, f \in Faults :
          ( /\ add_sale(e[1], e[2], i, e[3], e[4], f)
            /\ i \in DOMAIN items
            /\ e[3] > items[i].current_stock )
          => /\ call'.ret = FALSE
             /\ call'.msg = MsgInsufficient(items[i].current_stock)
             /\ UNCHANGED <<sales, stock_log>>
             /\ i \in DOMAIN items'
             /\ items'[i].current_stock = items[i].current_stock
             /\ items'[i].sale_price = items[i].sale_price]_vars

\* C3: add_purchase is all-or-nothing: when it returns False none of its
\* writes is present; when it returns True the purchase row, the item's
\* stock and purchase_price update and the stock log row are all present.
C3_PurchaseAllOrNothing ==
    [][\A e \in PurchaseEntries, i \in ItemIds, f \in Faults :
          add_purchase(e[1], e[2], i, e[3], e[4], f)
          => IF call'.ret
             THEN /\ purchases' = InsertLedgerRow(purchases, e[1], e[2], i,
                                                  e[3], e[4])
                  /\ stock_log' = Append(stock_log,
                        [item_id |-> i, change_qty |-> e[3],
                         type |-> "purchase", date |-> e[2],
                         bill_no |-> e[1]])
                  /\ i \in DOMAIN items
                  /\ i \in DOMAIN items'
                  /\ items'[i].current_stock = items[i].current_stock + e[3]
                  /\ items'[i].purchase_price = e[4]
             ELSE UNCHANGED <<items, purchases, sales, stock_log>>]_vars

\* C4: an exception inside add_sale after the stock check has passed (at the
\* sale insert, the stock update, the stock log insert or the commit) makes
\* the call return (False, the error's message) and leaves no sale row, no
\* stock log row and no change of the item behind.
C4_SaleFailureRollsBack ==
    [][\A e \in SaleEntries, i \in ItemIds, f \in Faults \ {"none"} :
          ( /\ add_sale(e[1], e[2], i, e[3], e[4], f)
            /\ ~in_transaction
            /\ i \in DOMAIN items
            /\ items[i].current_stock >= e[3] )
          => /\ call'.ret = FALSE
             /\ call'.msg = MsgStorage
             /\ UNCHANGED <<items, purchases, sales, stock_log>>]_vars

C4_Witness ==
    /\ call.op = "add_sale"
    /\ call.ret = FALSE
    /\ call.msg = MsgStorage
    /\ \E i \in DOMAIN items : items[i].current_stock >= 1

\* C5: every purchase row has a stock log row with the same item, date and
\* bill_no, type 'purchase' and change_qty = +quantity, and every sale row has
\* one with the same item, date and bill_no, type 'sale' and
\* change_qty = -quantity.
C5_EveryRecordLogged ==
    /\ \A k \in DOMAIN purchases :
          \E l \in DOMAIN stock_log :
              stock_log[l] = [item_id |-> purchases[k].item_id,
                              change_qty |-> purchases[k].quantity,
                              type |-> "purchase",
                              date |-> purchases[k].date,
                              bill_no |-> purchases[k].bill_no]
    /\ \A k \in DOMAIN sales :
          \E l \in DOMAIN stock_log :
              stock_log[l] = [item_id |-> sales[k].item_id,
                              change_qty |-> 0 - sales[k].quantity,
                              type |-> "sale",
                              date |-> sales[k].date,
                              bill_no |-> sales[k].bill_no]

C5_Witness == Len(purchases) >= 1 /\ Len(sales) >= 1

\* C6: delete_item(id) returns False and leaves items, purchases, sales and
\* stock_log unchanged whenever a purchase row or a sale row references id.
C6_DeleteReferencedFails ==
    [][\A i \in ItemIds :
          ( /\ delete_item(i)
            /\ (References(purchases, i) \/ References(sales, i)) )
          => /\ call'.ret = FALSE
             /\ UNCHANGED <<items, purchases, sales, stock_log>>]_vars

C6_Witness ==
    /\ call.op = "delete_item"
    /\ call.ret = FALSE
    /\ \E i \in DOMAIN items : References(purchases, i)

\* C7: delete_item(id) on an existing item without purchase and sale rows
\* returns True, after which get_item_by_id(id) finds nothing and every other
\* item is unchanged.
C7_DeleteOrphanSucceeds ==
    [][\A i \in ItemIds :
          ( /\ delete_item(i)
            /\ i \in DOMAIN items
            /\ ~References(purchases, i)
            /\ ~References(sales, i) )
          => /\ call'.ret = TRUE
             /\ GetItemById(i)' = <<>>
             /\ \A j \in DOMAIN items \ {i} :
                   j \in DOMAIN items' /\ items'[j] = items[j]]_vars

C7_Witness ==
    /\ call.op = "delete_item"
    /\ call.ret = TRUE
    /\ item_seq = 2
    /\ DOMAIN items = {2}

\* C8: no two live items have the same name.
C8_NamesUnique ==
    \A i, j \in DOMAIN items :
        i # j => items[i].item_name # items[j].item_name

C8_Witness ==
    /\ call.op \in {"add_item", "update_item"}
    /\ call.ret = FALSE
    /\ ~call.raised
    /\ Cardinality(DOMAIN items) = 2

\* C9: add_item with the name of a live item, and update_item of a live item
\* to the name of a different live item, return False and leave the items
\* table exactly as it was.
C9_NameConflictRejected ==
    [][ /\ \A n \in Names, p \in PricePairs :
              ( /\ add_item(n, p[1], p[2], "none")
                /\ \E j \in DOMAIN items : items[j].item_name = n )
              => call'.ret = FALSE /\ items' = items
        /\ \A i \in ItemIds, n \in Names, p \in PricePairs :
              ( /\ update_item(i, n, p[1], p[2])
                /\ i \in DOMAIN items
                /\ \E j \in DOMAIN items \ {i} : items[j].item_name = n )
              => call'.ret = FALSE /\ items' = items ]_vars

C9_Witness ==
    /\ call.op = "update_item"
    /\ call.ret = FALSE
    /\ \E i \in DOMAIN items : items[i].purchase_price # 9

\* C10: add_sale with an item_id that matches no live item returns
\* (False, "Item not found") whatever the quantity, and writes no sale row,
\* no stock log row and changes no item.
C10_MissingItemReported ==
    [][\A e \in SaleEntries, i \in ItemIds, f \in Faults :
          ( /\ add_sale(e[1], e[2], i, e[3], e[4], f)
            /\ i \notin DOMAIN items )
          => /\ call'.ret = FALSE
             /\ call'.msg = MsgItemNotFound
             /\ UNCHANGED <<items, sales, stock_log>>]_vars

====
